---------------------------- MODULE Spec2Model ----------------------------
(***************************************************************************)
(* Model of the flower.hero wedding-invitation page.                       *)
(*                                                                         *)
(*  - the RSVP form of Home (guest counter held in React state, the        *)
(*    uncontrolled name / attendance / notes fields held by the DOM, the   *)
(*    submit button and its onSubmit handler), specification Spec;         *)
(*  - the procedural rose generator (Rose, SvgRose, SmallRoseIcon): the    *)
(*    Array.from loop that emits one petal per index, specification        *)
(*    RoseSpec.                                                            *)
(*                                                                         *)
(* Numbers: the source computes in IEEE doubles.  The model computes the   *)
(* decimal values the source text denotes: angles in millidegrees, times   *)
(* in milliseconds, lengths in thousandths of a viewBox unit, scales and   *)
(* the colour fraction as exact rationals <<numerator, denominator>>.      *)
(***************************************************************************)
EXTENDS Integers, Sequences, FiniteSets, TLC

VARIABLES
    guests,        \* useState(2): the guest counter
    checked,       \* checkedness of the two radio inputs, by value
    nameValue,     \* value of the required text input
    notesValue,    \* value of the optional textarea
    handlerRuns,   \* how many times the onSubmit handler has run
    requests,      \* network requests caused by form submission
    lastOp,        \* the last user event dispatched on the page
    pre,           \* the form state just before that event
    roseKind,      \* which rose component is rendering ("none" when idle)
    roseDelay,     \* its delay prop, in milliseconds
    petals,        \* the petals its Array.from loop has produced so far
    prevRun,       \* the last finished render: its inputs and its petal list
    page,          \* which hero is mounted: "none", "clusters" or "stems"
    mounted,       \* the animated elements of the hero that did mount
    now,           \* time since mount, in milliseconds
    phase,         \* the visual state of every timeline entry of a mounted element
    section,       \* the section the scroll container is snapped to, 1..5
    plays,         \* per scroll-triggered entry: how often its animation was started
    age            \* per scroll-triggered entry: ms since that start, -1 at `initial`

formVars == <<guests, checked, nameValue, notesValue, handlerRuns, requests, lastOp, pre>>
roseVars == <<roseKind, roseDelay, petals, prevRun>>
heroVars == <<page, mounted, now, phase>>
scrollVars == <<section, plays, age>>
vars == <<guests, checked, nameValue, notesValue, handlerRuns, requests, lastOp, pre,
          roseKind, roseDelay, petals, prevRun, page, mounted, now, phase,
          section, plays, age>>

(***************************************************************************)
(* Bounds of the model                                                     *)
(***************************************************************************)
\* the submit handler is allowed to run at most this many times
MaxSubmits == 2
\* rose delay props are drawn from 0, 100, ..., MaxDelayTenths * 100 ms
MaxDelayTenths == 30
\* the animation runtime draws a frame every FrameMs milliseconds
FrameMs == 10
\* frames are drawn until MaxTime milliseconds after mount
MaxTime == 4200
\* the scroll-triggered entries are observed every ScrollFrameMs milliseconds
ScrollFrameMs == 100

(***************************************************************************)
(* Math helpers of the JavaScript runtime                                  *)
(***************************************************************************)
MathMax(a, b) == IF a >= b THEN a ELSE b

MathMin(a, b) == IF a <= b THEN a ELSE b

(***************************************************************************)
(* RSVP form                                                               *)
(***************************************************************************)
\* useState(2)
InitialGuests == 2

\* lower clamp of the decrement button, Math.max(1, g - 1)
MinGuests == 1

\* upper clamp of the increment button, Math.min(10, g + 1)
MaxGuests == 10

\* the values of the two radio inputs
RadioValues == {"yes", "no"}

\* the name attribute of a radio input: both belong to the group "attendance"
RadioName(v) == "attendance"

\* the required attribute of each radio input: set on "yes" only
RadioRequired(v) == v = "yes"

\* the required attribute of the name text input
NameRequired == TRUE

\* texts a user may type into the name input and the textarea
Texts == {"", "Ana"}

\* the state of the form's fields, as the event handlers and the browser see it
FormState == [guests |-> guests, checked |-> checked, nameValue |-> nameValue,
              notesValue |-> notesValue, handlerRuns |-> handlerRuns,
              requests |-> requests]

\* the fields of a freshly mounted form
FreshChecked == [v \in RadioValues |-> FALSE]

\* a broken decrement updater that forgets the lower clamp
DecrementUpdater_NoClamp(g) == g - 1

\* the updater passed to setGuests by the minus button
DecrementUpdater(g) == MathMax(MinGuests, g - 1)

\* a broken increment updater that forgets the upper clamp
IncrementUpdater_NoClamp(g) == g + 1

\* the updater passed to setGuests by the plus button
IncrementUpdater(g) == MathMin(MaxGuests, g + 1)

\* a radio group in which selecting one input leaves the others alone
CheckRadio_NoGroup(c, v) == [c EXCEPT ![v] = TRUE]

\* clicking radio v: it becomes checked, every other radio of its group unchecked
CheckRadio(c, v) ==
    [w \in RadioValues |->
        IF w = v THEN TRUE
        ELSE IF RadioName(w) = RadioName(v) THEN FALSE
        ELSE c[w]]

\* a radio group suffers from being missing when one of its inputs is required
\* and none of the group is checked
RadioGroupMissing(c) ==
    \E v \in RadioValues :
        /\ RadioRequired(v)
        /\ \A w \in RadioValues : RadioName(w) = RadioName(v) => ~c[w]

\* the required text input suffers from being missing when its value is empty
NameMissing(n) == NameRequired /\ n = ""

\* a form whose fields carry no required attribute
FormValid_NoRequired(c, n) == TRUE

\* the browser's constraint validation of the form's fields
FormValid(c, n) == ~RadioGroupMissing(c) /\ ~NameMissing(n)

\* a submit handler that forgets to cancel the event
OnSubmit_NoPrevent(e) == e

\* onSubmit={(e) => e.preventDefault()}
OnSubmit(e) == [e EXCEPT !.defaultPrevented = TRUE]

FormInit ==
    /\ guests = InitialGuests
    /\ checked = FreshChecked
    /\ nameValue = ""
    /\ notesValue = ""
    /\ handlerRuns = 0
    /\ requests = 0
    /\ lastOp = "mount"
    /\ pre = [guests |-> InitialGuests, checked |-> FreshChecked, nameValue |-> "",
              notesValue |-> "", handlerRuns |-> 0, requests |-> 0]

\* click on the minus button
Decrement ==
    /\ guests' = DecrementUpdater(guests)
    /\ lastOp' = "decrement"
    /\ pre' = FormState
    /\ UNCHANGED <<checked, nameValue, notesValue, handlerRuns, requests>>
    /\ UNCHANGED <<roseVars, heroVars, scrollVars>>

\* click on the plus button
Increment ==
    /\ guests' = IncrementUpdater(guests)
    /\ lastOp' = "increment"
    /\ pre' = FormState
    /\ UNCHANGED <<checked, nameValue, notesValue, handlerRuns, requests>>
    /\ UNCHANGED <<roseVars, heroVars, scrollVars>>

\* a radio handler that also sets the guest counter back to 1
SelectAttendance_SetsGuests ==
    \E v \in RadioValues :
        /\ checked' = CheckRadio(checked, v)
        /\ guests' = MinGuests
        /\ lastOp' = "radio"
        /\ pre' = FormState
        /\ UNCHANGED <<nameValue, notesValue, handlerRuns, requests>>
        /\ UNCHANGED <<roseVars, heroVars, scrollVars>>

\* click on one of the two attendance radios
SelectAttendance ==
    \E v \in RadioValues :
        /\ checked' = CheckRadio(checked, v)
        /\ lastOp' = "radio"
        /\ pre' = FormState
        /\ UNCHANGED <<guests, nameValue, notesValue, handlerRuns, requests>>
        /\ UNCHANGED <<roseVars, heroVars, scrollVars>>

\* typing into the name input
TypeName ==
    \E t \in Texts :
        /\ nameValue' = t
        /\ lastOp' = "name"
        /\ pre' = FormState
        /\ UNCHANGED <<guests, checked, notesValue, handlerRuns, requests>>
        /\ UNCHANGED <<roseVars, heroVars, scrollVars>>

\* typing into the notes textarea
TypeNotes ==
    \E t \in Texts :
        /\ notesValue' = t
        /\ lastOp' = "notes"
        /\ pre' = FormState
        /\ UNCHANGED <<guests, checked, nameValue, handlerRuns, requests>>
        /\ UNCHANGED <<roseVars, heroVars, scrollVars>>

\* click on the submit button: the browser validates the required fields; only
\* a valid form gets a submit event, which the handler receives; an event the
\* handler did not cancel makes the browser send the form and load the reply,
\* which remounts the page
Submit ==
    /\ handlerRuns < MaxSubmits
    /\ lastOp' = "submit"
    /\ pre' = FormState
    /\ IF ~FormValid(checked, nameValue)
       THEN UNCHANGED <<guests, checked, nameValue, notesValue, handlerRuns, requests>>
       ELSE LET e == OnSubmit([type |-> "submit", defaultPrevented |-> FALSE])
            IN  /\ handlerRuns' = handlerRuns + 1
                /\ IF e.defaultPrevented
                   THEN UNCHANGED <<guests, checked, nameValue, notesValue, requests>>
                   ELSE /\ requests' = requests + 1
                        /\ guests' = InitialGuests
                        /\ checked' = FreshChecked
                        /\ nameValue' = ""
                        /\ notesValue' = ""
    /\ UNCHANGED <<roseVars, heroVars, scrollVars>>

RoseIdle ==
    /\ roseKind = "none"
    /\ roseDelay = 0
    /\ petals = <<>>
    /\ prevRun = [kind |-> "none", delay |-> 0, petals |-> <<>>]

(***************************************************************************)
(* Fixed-point and rational arithmetic standing in for doubles             *)
(***************************************************************************)
\* rationals are pairs <<numerator, denominator>> with a positive denominator
RAdd(a, b) == <<a[1] * b[2] + b[1] * a[2], a[2] * b[2]>>

RMul(a, b) == <<a[1] * b[1], a[2] * b[2]>>

REq(a, b) == a[1] * b[2] = b[1] * a[2]

RLess(a, b) == a[1] * b[2] < b[1] * a[2]

\* Math.floor of a non-negative rational
MathFloor(r) == r[1] \div r[2]

\* the largest r in lo..hi with r * r <= n
RECURSIVE IsqrtIn(_, _, _)
IsqrtIn(n, lo, hi) ==
    IF lo >= hi THEN lo
    ELSE LET mid == (lo + hi + 1) \div 2
         IN  IF mid * mid <= n THEN IsqrtIn(n, mid, hi) ELSE IsqrtIn(n, lo, mid - 1)

\* Math.sqrt of a small non-negative integer, in thousandths (rounded down)
MathSqrt(i) == IsqrtIn(i * 1000000, 0, 1000 * (i + 1))

\* product of two fixed-point numbers of scale s, rounded toward zero
MulFP(a, b, s) == IF a * b >= 0 THEN (a * b) \div s ELSE -((-(a * b)) \div s)

\* alternating series  term - term*x2/(n(n+1)) + ...  in scale 10^4, summed
\* until the terms vanish
RECURSIVE Series(_, _, _)
Series(term, x2, n) ==
    IF term = 0 THEN 0
    ELSE term - Series((term * x2) \div (10000 * n * (n + 1)), x2, n + 2)

\* a first-quadrant angle of u millidegrees (0 <= u < 90000) in radians,
\* scale 10^4: u * (pi / 180) with pi / 180 = 0.017453 rad per degree
QuadrantRad(u) == ((u * 17453) \div 1000) \div 100

\* cosine and sine on the first quadrant, scale 10^4
CosQ(u) == LET x == QuadrantRad(u) IN Series(10000, (x * x) \div 10000, 1)

SinQ(u) == LET x == QuadrantRad(u) IN Series(x, (x * x) \div 10000, 2)

\* Math.cos and Math.sin of angle * Math.PI / 180, the angle given in
\* millidegrees; the result has scale 10^4.  The functions are periodic, so
\* the argument is reduced to a quadrant first, as the runtime does.
MathCos(angle) ==
    LET u == angle % 360000
        q == u \div 90000
        r == u % 90000
    IN  CASE q = 0 -> CosQ(r)
          [] q = 1 -> -SinQ(r)
          [] q = 2 -> -CosQ(r)
          [] OTHER -> SinQ(r)

MathSin(angle) ==
    LET u == angle % 360000
        q == u \div 90000
        r == u % 90000
    IN  CASE q = 0 -> SinQ(r)
          [] q = 1 -> CosQ(r)
          [] q = 2 -> -SinQ(r)
          [] OTHER -> -CosQ(r)

(***************************************************************************)
(* Rose generator                                                          *)
(***************************************************************************)
\* const GOLDEN_ANGLE = 137.508, in millidegrees
GOLDEN_ANGLE == 137508

\* const NUM_PETALS = 24
NUM_PETALS == 24

\* Array.from({ length: 12 }, ...) of the small icon
ICON_PETALS == 12

\* the palette, centre colour first
ROSE_COLORS == <<"#6a1530", "#7a1e3a", "#8e2845", "#a83458", "#c04668",
                 "#d46080", "#e07898", "#ec98b0", "#f4b0c4">>

\* the animated roses and the static small icon
AnimatedKinds == {"Rose", "SvgRose"}

RoseKinds == AnimatedKinds \cup {"SmallRoseIcon"}

\* the length of the Array.from loop of each component
PetalCount(kind) == IF kind = "SmallRoseIcon" THEN ICON_PETALS ELSE NUM_PETALS

\* the factor of Math.sqrt(i), in thousandths: 5.5 for the roses, 4 for the icon
RadiusScale(kind) == IF kind = "SmallRoseIcon" THEN 4000 ELSE 5500

\* where the centre circle is drawn (cx, cy), in thousandths
Centre(kind) ==
    IF kind = "SmallRoseIcon" THEN [x |-> 25000, y |-> 25000] ELSE [x |-> 0, y |-> 0]

\* a generator that keeps an offset between renders and adds it to the angle
Angle_Stateful(i) == i * GOLDEN_ANGLE + (IF prevRun.kind = "none" THEN 0 ELSE 1000)

\* an angle reduced to one turn, which the source does not do
Angle_Normalised(i) == (i * GOLDEN_ANGLE) % 360000

\* const angle = i * GOLDEN_ANGLE
Angle(i) == i * GOLDEN_ANGLE

\* a spiral that starts one step out, so that no petal sits on the centre
Dist_FromOne(kind, i) == (MathSqrt(i + 1) * RadiusScale(kind)) \div 1000

\* const dist = Math.sqrt(i) * 5.5   (Math.sqrt(i) * 4 in the icon)
Dist(kind, i) == (MathSqrt(i) * RadiusScale(kind)) \div 1000

\* a scale normalised by the last index instead of the petal count
PetalScale_ByLastIndex(kind, i) ==
    IF kind = "SmallRoseIcon"
    THEN RAdd(<<40, 100>>, RMul(<<i, ICON_PETALS - 1>>, <<60, 100>>))
    ELSE RAdd(<<35, 100>>, RMul(<<i, NUM_PETALS - 1>>, <<75, 100>>))

\* const petalScale = 0.35 + (i / NUM_PETALS) * 0.75
\* const s = 0.4 + (i / 12) * 0.6   in the icon
PetalScale(kind, i) ==
    IF kind = "SmallRoseIcon"
    THEN RAdd(<<40, 100>>, RMul(<<i, ICON_PETALS>>, <<60, 100>>))
    ELSE RAdd(<<35, 100>>, RMul(<<i, NUM_PETALS>>, <<75, 100>>))

\* the argument of scale(...) in the petal's transform
TransformScale(kind, i) ==
    IF kind = "SmallRoseIcon"
    THEN RMul(PetalScale(kind, i), <<45, 100>>)
    ELSE PetalScale(kind, i)

\* a palette that cycles with the index instead of following the spiral
ColorIndex_Cycling(kind, i) == i % Len(ROSE_COLORS)

\* Math.round in place of Math.floor
ColorFloor_Round(kind, i) ==
    (2 * i * Len(ROSE_COLORS) + PetalCount(kind)) \div (2 * PetalCount(kind))

\* Math.floor((i / N) * ROSE_COLORS.length), the first argument of Math.min
ColorFloor(kind, i) ==
    MathFloor(RMul(<<i, PetalCount(kind)>>, <<Len(ROSE_COLORS), 1>>))

\* const ci = Math.min(Math.floor((i / N) * ROSE_COLORS.length),
\*                     ROSE_COLORS.length - 1)
ColorIndex(kind, i) == MathMin(ColorFloor(kind, i), Len(ROSE_COLORS) - 1)

\* a reveal with twice the step between petals
RevealDelay_Slow(delay, i) == delay + i * 80

\* a reveal that runs from the rim to the centre
RevealDelay_Inward(delay, i) == delay + (NUM_PETALS - 1 - i) * 40

\* delay: delay + i * 0.04, in milliseconds
RevealDelay(delay, i) == delay + i * 40

\* one call of the Array.from callback: the petal of index i
Petal(kind, delay, i) ==
    LET angle == Angle(i)
        dist == Dist(kind, i)
        px == MulFP(MathCos(angle), dist, 10000)
        py == MulFP(MathSin(angle), dist, 10000)
        ci == ColorIndex(kind, i)
    IN  [index |-> i,
         angle |-> angle,
         dist |-> dist,
         x |-> Centre(kind).x + px,
         y |-> Centre(kind).y + py,
         rotate |-> angle + 90000,
         petalScale |-> PetalScale(kind, i),
         scale |-> TransformScale(kind, i),
         ci |-> ci,
         fill |-> ROSE_COLORS[ci + 1],
         animated |-> kind \in AnimatedKinds,
         delay |-> IF kind \in AnimatedKinds THEN RevealDelay(delay, i) ELSE 0,
         duration |-> IF kind \in AnimatedKinds THEN 550 ELSE 0]

\* the delay props a rose may be rendered with, in milliseconds
Delays == {100 * t : t \in 0..MaxDelayTenths}

\* a Rose or SvgRose component starts rendering with a delay prop
RenderRose ==
    \E kind \in AnimatedKinds, d \in Delays :
        /\ roseKind = "none"
        /\ roseKind' = kind
        /\ roseDelay' = d
        /\ petals' = <<>>
        /\ UNCHANGED prevRun
        /\ UNCHANGED <<formVars, heroVars, scrollVars>>

\* a SmallRoseIcon component starts rendering (it has no delay prop)
RenderSmallRoseIcon ==
    /\ roseKind = "none"
    /\ roseKind' = "SmallRoseIcon"
    /\ roseDelay' = 0
    /\ petals' = <<>>
    /\ UNCHANGED prevRun
    /\ UNCHANGED <<formVars, heroVars, scrollVars>>

\* the Array.from callback runs for the next index
RenderPetal ==
    /\ roseKind \in RoseKinds
    /\ Len(petals) < PetalCount(roseKind)
    /\ petals' = Append(petals, Petal(roseKind, roseDelay, Len(petals)))
    /\ UNCHANGED <<roseKind, roseDelay, prevRun>>
    /\ UNCHANGED <<formVars, heroVars, scrollVars>>

\* the loop is over and the component returns its element
FinishRender ==
    /\ roseKind \in RoseKinds
    /\ Len(petals) = PetalCount(roseKind)
    /\ roseKind' = "none"
    /\ roseDelay' = 0
    /\ petals' = <<>>
    /\ prevRun' = [kind |-> roseKind, delay |-> roseDelay, petals |-> petals]
    /\ UNCHANGED <<formVars, heroVars, scrollVars>>

RoseNext ==
    \/ RenderRose
    \/ RenderSmallRoseIcon
    \/ RenderPetal
    \/ FinishRender

(***************************************************************************)
(* Hero timeline: the entries played on mount                              *)
(***************************************************************************)
\* the two versions of the hero: roses in flex clusters beside the title, and
\* roses on stems growing out of the title's letter tails
Pages == {"clusters", "stems"}

\* one timeline entry: the animated part `part` (petal i for a petal) of the
\* element (unit, side, k), with its transition's delay and duration in ms
Entry(unit, side, k, part, i, delay, duration) ==
    [unit |-> unit, side |-> side, k |-> k, part |-> part, i |-> i,
     delay |-> delay, duration |-> duration]

\* the element an entry belongs to
UnitOf(e) == [unit |-> e.unit, side |-> e.side, k |-> e.k]

\* a title whose fill fades in before its stroke is drawn
TextEntries_FillFirst ==
    {Entry("title", "-", 0, "stroke", 0, 1800, 2000),
     Entry("title", "-", 0, "fill", 0, 300, 800),
     Entry("separator", "-", 1, "fade", 0, 2300, 800),
     Entry("location", "-", 0, "fade", 0, 2500, 800),
     Entry("separator", "-", 2, "fade", 0, 2800, 800),
     Entry("date", "-", 0, "fade", 0, 3000, 1000)}

\* the title (stroke drawn, then fill faded in), the two separators, the
\* location line and the date line, the same in both heroes
TextEntries ==
    {Entry("title", "-", 0, "stroke", 0, 300, 2000),
     Entry("title", "-", 0, "fill", 0, 1800, 800),
     Entry("separator", "-", 1, "fade", 0, 2300, 800),
     Entry("location", "-", 0, "fade", 0, 2500, 800),
     Entry("separator", "-", 2, "fade", 0, 2800, 800),
     Entry("date", "-", 0, "fade", 0, 3000, 1000)}

\* the petals and the centre circle of one rose rendered with the prop delay
RoseCoreEntries(side, k, delay) ==
    {Entry("rose", side, k, "petal", i, RevealDelay(delay, i), 550) : i \in 0..(NUM_PETALS - 1)}
        \cup {Entry("rose", side, k, "centre", 0, delay, 250)}

\* Rose: the motion.div wrapper around the petals and the centre
RoseEntries(side, k, delay) ==
    RoseCoreEntries(side, k, delay) \cup {Entry("rose", side, k, "wrapper", 0, delay, 500)}

\* Leaf: its motion.div wrapper
LeafEntries(side, k, delay) == {Entry("leaf", side, k, "wrapper", 0, delay, 400)}

\* const baseDelay = 2.2 of RoseCluster
ClusterBaseDelay == 2200

\* the delay and size (in hundredths) props of the four roses of a cluster
ClusterRoses ==
    <<[delay |-> ClusterBaseDelay + 100, size |-> 120],
      [delay |-> ClusterBaseDelay + 300, size |-> 90],
      [delay |-> ClusterBaseDelay + 400, size |-> 65],
      [delay |-> ClusterBaseDelay, size |-> 40]>>

\* the delay, rotate and scale (in hundredths) props of the four leaves
ClusterLeaves ==
    <<[delay |-> ClusterBaseDelay + 300, rotate |-> -40, scale |-> 110],
      [delay |-> ClusterBaseDelay + 200, rotate |-> 30, scale |-> 90],
      [delay |-> ClusterBaseDelay + 500, rotate |-> -55, scale |-> 80],
      [delay |-> ClusterBaseDelay + 400, rotate |-> 45, scale |-> 70]>>

\* RoseCluster, plain ("L") or mirrored ("R")
ClusterEntries(side) ==
    UNION {RoseEntries(side, k, ClusterRoses[k].delay) : k \in 1..Len(ClusterRoses)}
        \cup UNION {LeafEntries(side, k, ClusterLeaves[k].delay) : k \in 1..Len(ClusterLeaves)}

\* const LEFT: RoseBranch[]  (size in hundredths, delay in ms)
LEFT ==
    <<[cx |-> 70, cy |-> 100, ex |-> 40, ey |-> 15, size |-> 120, delay |-> 2300],
      [cx |-> 60, cy |-> 145, ex |-> 20, ey |-> 95, size |-> 90, delay |-> 2600],
      [cx |-> 100, cy |-> 140, ex |-> 80, ey |-> 95, size |-> 65, delay |-> 2500],
      [cx |-> 120, cy |-> 152, ex |-> 105, ey |-> 135, size |-> 40, delay |-> 2200]>>

\* a right table whose second branch was given the delay of the third
RIGHT_Slip ==
    <<[cx |-> 930, cy |-> 100, ex |-> 960, ey |-> 15, size |-> 120, delay |-> 2300],
      [cx |-> 940, cy |-> 145, ex |-> 980, ey |-> 95, size |-> 90, delay |-> 2500],
      [cx |-> 900, cy |-> 140, ex |-> 920, ey |-> 95, size |-> 65, delay |-> 2500],
      [cx |-> 880, cy |-> 152, ex |-> 895, ey |-> 135, size |-> 40, delay |-> 2200]>>

\* const RIGHT: RoseBranch[]
RIGHT ==
    <<[cx |-> 930, cy |-> 100, ex |-> 960, ey |-> 15, size |-> 120, delay |-> 2300],
      [cx |-> 940, cy |-> 145, ex |-> 980, ey |-> 95, size |-> 90, delay |-> 2600],
      [cx |-> 900, cy |-> 140, ex |-> 920, ey |-> 95, size |-> 65, delay |-> 2500],
      [cx |-> 880, cy |-> 152, ex |-> 895, ey |-> 135, size |-> 40, delay |-> 2200]>>

\* const LEAVES: x, y, rotation r, scale s (hundredths), delay d (ms); the
\* first three lie on the left stems, the last three on the right stems
LEAVES ==
    <<[x |-> 75, y |-> 75, r |-> -40, s |-> 110, d |-> 2500],
      [x |-> 50, y |-> 120, r |-> -60, s |-> 90, d |-> 2700],
      [x |-> 95, y |-> 115, r |-> -25, s |-> 80, d |-> 2400],
      [x |-> 925, y |-> 75, r |-> 40, s |-> 110, d |-> 2500],
      [x |-> 950, y |-> 120, r |-> 60, s |-> 90, d |-> 2700],
      [x |-> 905, y |-> 115, r |-> 25, s |-> 80, d |-> 2400]>>

\* the branch table of a side
Branches(side) == IF side = "L" THEN LEFT ELSE RIGHT

\* a stem that starts 0.3 s after its rose instead of before it
StemDelay_After(b) == b.delay + 300

\* delay: b.delay - 0.3 of a stem's motion.path
StemDelay(b) == b.delay - 300

\* LEFT.map / RIGHT.map: for each branch a stem path and an SvgRose
BranchEntries(side) ==
    UNION {{Entry("stem", side, k, "path", 0, StemDelay(Branches(side)[k]), 900)}
               \cup RoseCoreEntries(side, k, Branches(side)[k].delay) :
           k \in 1..Len(Branches(side))}

\* LEAVES.map: the blade path and the vein line of every leaf
StemLeafEntries ==
    UNION {{Entry("leaf", "-", k, "blade", 0, LEAVES[k].d, 400),
            Entry("leaf", "-", k, "vein", 0, LEAVES[k].d + 100, 300)} :
           k \in 1..Len(LEAVES)}

\* every timeline entry a hero declares
PageEntries(p) ==
    IF p = "clusters"
    THEN TextEntries \cup ClusterEntries("L") \cup ClusterEntries("R")
    ELSE IF p = "stems"
    THEN TextEntries \cup BranchEntries("L") \cup BranchEntries("R") \cup StemLeafEntries
    ELSE {}

\* the animated elements of a hero
PageUnits(p) == {UnitOf(e) : e \in PageEntries(p)}

\* children that wait for the wrapper of their rose to finish before they start
StartTime_AfterWrapper(e) == IF e.part = "petal" THEN e.delay + 500 ELSE e.delay

\* transition.delay: an entry starts its own delay after mount
StartTime(e) == e.delay

\* an entry whose transition repeats: it runs again and again after its delay
PhaseAt_Repeating(e, t) ==
    IF t < StartTime(e) THEN "initial"
    ELSE IF (t - StartTime(e)) % (2 * e.duration) < e.duration THEN "running"
    ELSE "initial"

\* the visual state of an entry t ms after mount: at `initial` until its
\* delay has passed, interpolating for its duration, then at `animate`
PhaseAt(e, t) ==
    IF t < StartTime(e) THEN "initial"
    ELSE IF t < StartTime(e) + e.duration THEN "running"
    ELSE "final"

\* no hero is mounted
HeroIdle ==
    /\ page = "none"
    /\ mounted = {}
    /\ now = 0
    /\ phase = << >>

\* a hero mounts; at most one of its animated elements fails to mount
MountHero ==
    \E p \in Pages :
        \E failed \in {{}} \cup {{u} : u \in PageUnits(p)} :
            /\ page = "none"
            /\ page' = p
            /\ mounted' = PageUnits(p) \ failed
            /\ now' = 0
            /\ phase' = [e \in {x \in PageEntries(p) : UnitOf(x) \notin failed} |-> PhaseAt(e, 0)]
            /\ UNCHANGED <<formVars, roseVars, scrollVars>>

\* the animation runtime draws the next frame
Frame ==
    /\ page \in Pages
    /\ now < MaxTime
    /\ now' = now + FrameMs
    /\ phase' = [e \in DOMAIN phase |-> PhaseAt(e, now + FrameMs)]
    /\ UNCHANGED <<page, mounted>>
    /\ UNCHANGED <<formVars, roseVars, scrollVars>>

HeroNext ==
    \/ MountHero
    \/ Frame

(***************************************************************************)
(* Scroll-triggered entries of the sections below the hero                 *)
(***************************************************************************)
\* the five snap sections of the page: hero, invitation, locations, programme,
\* RSVP
Sections == 1..5

\* the motion elements with whileInView, by section: their transition's delay
\* and duration in ms
ScrollEntries ==
    {Entry("section", "-", 2, "invitation", 0, 0, 1000),
     Entry("section", "-", 3, "heading", 0, 0, 800),
     Entry("section", "-", 3, "cards", 0, 200, 1000),
     Entry("section", "-", 3, "map", 0, 400, 1000),
     Entry("section", "-", 4, "heading", 0, 0, 800),
     Entry("section", "-", 4, "list", 0, 200, 1000),
     Entry("section", "-", 5, "heading", 0, 0, 800),
     Entry("section", "-", 5, "text", 0, 100, 800),
     Entry("section", "-", 5, "form", 0, 200, 1000)}

\* a viewport option that lets the entry replay on every entry into view
ViewportOnce_Replay(e) == FALSE

\* viewport={{ once: true, margin: "-100px" }}
ViewportOnce(e) == TRUE

\* the visual state of a scroll-triggered entry
ScrollPhase(e) ==
    IF age[e] < e.delay THEN "initial"
    ELSE IF age[e] < e.delay + e.duration THEN "running"
    ELSE "final"

\* the page is mounted with the hero in view and no section entry triggered
ScrollInit ==
    /\ section = 1
    /\ plays = [e \in ScrollEntries |-> 0]
    /\ age = [e \in ScrollEntries |-> -1]

\* the user scrolls to a neighbouring section, which snaps into view: the
\* entries of the section left go out of view, those of section s come into
\* view.  An entry that comes into view starts if it never started or may
\* replay; an entry that may replay returns to `initial` when it goes out.
ScrollTo ==
    \E s \in Sections :
        /\ s \in {section - 1, section + 1}
        /\ section' = s
        /\ plays' = [e \in ScrollEntries |->
                        IF e.k = s /\ (plays[e] = 0 \/ ~ViewportOnce(e))
                        THEN plays[e] + 1 ELSE plays[e]]
        /\ age' = [e \in ScrollEntries |->
                        IF e.k = s /\ (plays[e] = 0 \/ ~ViewportOnce(e)) THEN 0
                        ELSE IF e.k = section /\ ~ViewportOnce(e) THEN -1
                        ELSE age[e]]
        /\ lastOp' = "scroll"
        /\ pre' = FormState
        /\ UNCHANGED <<guests, checked, nameValue, notesValue, handlerRuns, requests>>
        /\ UNCHANGED <<roseVars, heroVars>>

\* time passes: every started entry that has not reached its final state
\* moves on, in view or not
ScrollFrame ==
    /\ \E e \in ScrollEntries : age[e] >= 0 /\ age[e] < e.delay + e.duration
    /\ age' = [e \in ScrollEntries |->
                  IF age[e] < 0 THEN age[e]
                  ELSE MathMin(age[e] + ScrollFrameMs, e.delay + e.duration)]
    /\ UNCHANGED <<section, plays>>
    /\ UNCHANGED <<formVars, roseVars, heroVars>>

ScrollNext ==
    \/ ScrollTo
    \/ ScrollFrame

Init == FormInit /\ RoseIdle /\ HeroIdle /\ ScrollInit

Next ==
    \/ Decrement
    \/ Increment
    \/ SelectAttendance
    \/ TypeName
    \/ TypeNotes
    \/ Submit
    \/ ScrollTo

Spec == Init /\ [][Next]_vars

RoseSpec == Init /\ [][RoseNext]_vars

HeroSpec == Init /\ [][HeroNext]_vars

ScrollSpec == Init /\ [][ScrollNext]_vars


(***************************************************************************)
(* Properties of the RSVP form (specification Spec)                        *)
(***************************************************************************)
\* C1: the guest counter is 2 on a freshly mounted page and, after any
\* sequence of increment and decrement clicks, an integer between 1 and 10.
C1_GuestsInRange ==
    /\ guests \in 1..10
    /\ lastOp = "mount" => guests = 2

\* an increment click arrived while the counter stood at 10
C1_Witness == lastOp = "increment" /\ pre.guests = 10 /\ guests = 10

\* C2: a decrement click takes g to g - 1, except that 1 stays 1; an increment
\* click takes g to g + 1, except that 10 stays 10.
C2_StepByOne ==
    /\ lastOp = "decrement" =>
          /\ pre.guests \in 1..10
          /\ guests = (IF pre.guests = 1 THEN 1 ELSE pre.guests - 1)
    /\ lastOp = "increment" =>
          /\ pre.guests \in 1..10
          /\ guests = (IF pre.guests = 10 THEN 10 ELSE pre.guests + 1)

\* a decrement click arrived while the counter stood at 1
C2_Witness == lastOp = "decrement" /\ pre.guests = 1 /\ guests = 1

\* C3: a click on submit, whatever the form holds, sends no request and
\* leaves the guest counter, the attendance selection and the text fields as
\* they were; no request is ever sent.
C3_SubmitDiscarded ==
    /\ requests = 0
    /\ lastOp = "submit" =>
          /\ requests = pre.requests
          /\ guests = pre.guests
          /\ checked = pre.checked
          /\ nameValue = pre.nameValue
          /\ notesValue = pre.notesValue

\* a valid form was submitted, the handler ran, and the counter and the
\* selection had been moved off their initial values before
C3_Witness ==
    /\ lastOp = "submit"
    /\ handlerRuns = pre.handlerRuns + 1
    /\ guests = 7
    /\ checked["no"]

\* C4: a click on submit while no attendance radio is checked, or while the
\* name is empty, does not reach the submit handler and changes nothing.
C4_RequiredRejected ==
    (/\ lastOp = "submit"
     /\ \/ \A v \in RadioValues : ~pre.checked[v]
        \/ pre.nameValue = "")
    => /\ handlerRuns = pre.handlerRuns
       /\ FormState = pre

\* submit was clicked with a name typed but no attendance radio checked
C4_Witness ==
    /\ lastOp = "submit"
    /\ pre.nameValue # ""
    /\ \A v \in RadioValues : ~pre.checked[v]

\* C5: there are two attendance options, at most one of them is checked in
\* any state, and a click on one leaves it checked and the other unchecked.
C5_AttendanceExclusive ==
    /\ Cardinality(DOMAIN checked) = 2
    /\ Cardinality({v \in DOMAIN checked : checked[v]}) <= 1
    /\ lastOp = "radio" => Cardinality({v \in DOMAIN checked : checked[v]}) = 1

\* "no" was clicked while "yes" was checked
C5_Witness ==
    /\ lastOp = "radio"
    /\ pre.checked["yes"]
    /\ checked["no"]
    /\ ~checked["yes"]

(***************************************************************************)
(* Properties of the rose generator (specification RoseSpec)               *)
(***************************************************************************)
\* the petals produced so far, as a set of positions in the list
PetalIndexes == 1..Len(petals)

\* C6: in the 24-petal roses and the 12-petal icon every petal's colour index
\* is min(floor(i * 9 / petalCount), 8), is below 9, and does not decrease
\* from one petal to the next.
C6_ColorIndexMonotone ==
    \A k \in PetalIndexes :
        /\ petals[k].ci = MathMin(((k - 1) * 9) \div PetalCount(roseKind), 8)
        /\ petals[k].ci \in 0..8
        /\ k > 1 => petals[k - 1].ci <= petals[k].ci

\* the icon's loop has run to its end and reached the last colour
C6_Witness ==
    /\ roseKind = "SmallRoseIcon"
    /\ Len(petals) = 12
    /\ petals[12].ci = 8

\* C7: in a rose rendered with delay d, petal i starts at d + i * 40 ms, so a
\* petal of lower index starts strictly earlier.
C7_RevealOutward ==
    roseKind \in AnimatedKinds =>
        \A k \in PetalIndexes :
            /\ petals[k].animated
            /\ petals[k].delay = roseDelay + (k - 1) * 40
            /\ \A j \in PetalIndexes : j < k => petals[j].delay < petals[k].delay

\* a whole 24-petal rose rendered with the delay 2.2 s
C7_Witness ==
    /\ roseKind = "SvgRose"
    /\ roseDelay = 2200
    /\ Len(petals) = 24
    /\ petals[24].delay = 3120

\* C8 as stated: for the petal count 24 and for the petal count 12 the first
\* petal has scale 0.35, the last 0.35 + 0.75 * (N - 1) / N, all below 1.1.
C8_Original ==
    \A k \in PetalIndexes :
        LET N == PetalCount(roseKind)
        IN  /\ k = 1 => REq(petals[k].petalScale, <<35, 100>>)
            /\ k = N => REq(petals[k].petalScale, <<35 * N + 75 * (N - 1), 100 * N>>)
            /\ RLess(petals[k].petalScale, <<11, 10>>)

\* C8 amended: in the 24-petal roses the petal scale is 0.35 at index 0,
\* 0.35 + 0.75 * 23 / 24 at index 23 and below 1.1 throughout; in the
\* 12-petal icon it is 0.4 at index 0, 0.4 + 0.6 * 11 / 12 = 0.95 at index 11
\* and below 1.1 throughout.
C8_PetalScale ==
    \A k \in PetalIndexes :
        /\ RLess(petals[k].petalScale, <<11, 10>>)
        /\ roseKind \in AnimatedKinds =>
              /\ k = 1 => REq(petals[k].petalScale, <<35, 100>>)
              /\ k = 24 => REq(petals[k].petalScale, <<35 * 24 + 75 * 23, 2400>>)
        /\ roseKind = "SmallRoseIcon" =>
              /\ k = 1 => REq(petals[k].petalScale, <<40, 100>>)
              /\ k = 12 => REq(petals[k].petalScale, <<95, 100>>)

\* a whole 24-petal rose, whose last petal has scale 1.06875
C8_Witness ==
    /\ roseKind = "Rose"
    /\ Len(petals) = 24
    /\ REq(petals[24].petalScale, <<171, 160>>)

\* C9: in every variant petal 0 has distance 0 and sits on the centre point;
\* the distance grows strictly with the index, and its square is i times the
\* square of the radius factor (to the resolution of the fixed-point root).
C9_FermatSpiral ==
    \A k \in PetalIndexes :
        LET p == petals[k]
            target == (k - 1) * RadiusScale(roseKind) * RadiusScale(roseKind)
        IN  /\ k = 1 => /\ p.dist = 0
                        /\ p.x = Centre(roseKind).x
                        /\ p.y = Centre(roseKind).y
            /\ k > 1 => petals[k - 1].dist < p.dist
            /\ p.dist * p.dist <= target
            /\ target < (p.dist + 7) * (p.dist + 7)

\* the icon's first petals: petal 0 on the centre (25, 25), petal 1 off it
C9_Witness ==
    /\ roseKind = "SmallRoseIcon"
    /\ Len(petals) = 2
    /\ petals[1].x = 25000
    /\ petals[1].y = 25000
    /\ petals[2].dist = 4000

\* C10: in a 24-petal rose the petal of index 5 has the angle 687.54 degrees
\* (not reduced; 327.54 modulo 360), the distance sqrt(151.25) = 12.298, and
\* the colour index 1.
C10_PetalFive ==
    (roseKind \in AnimatedKinds /\ Len(petals) >= 6) =>
        LET p == petals[6]
        IN  /\ p.index = 5
            /\ p.angle = 687540
            /\ p.angle % 360000 = 327540
            /\ p.dist = 12298
            /\ p.dist * p.dist <= 151250000
            /\ 151250000 < (p.dist + 1) * (p.dist + 1)
            /\ p.ci = 1

\* the loop of a Rose has just produced the petal of index 5
C10_Witness ==
    /\ roseKind = "Rose"
    /\ Len(petals) = 6
    /\ petals[6].rotate = 777540


C20_PaletteCovered ==
    /\ \A k \in PetalIndexes :
          /\ ColorFloor(roseKind, k - 1) <= 8
          /\ petals[k].ci = ColorFloor(roseKind, k - 1)
          /\ petals[k].ci = ((k - 1) * 9) \div PetalCount(roseKind)
          /\ k = 1 => petals[k].ci = 0 /\ petals[k].fill = ROSE_COLORS[1]
    /\ (roseKind \in RoseKinds /\ Len(petals) = PetalCount(roseKind)) =>
          /\ petals[Len(petals)].ci = 8
          /\ petals[Len(petals)].fill = ROSE_COLORS[9]
          /\ {petals[k].ci : k \in PetalIndexes} = 0..8
          /\ {petals[k].fill : k \in PetalIndexes} = {ROSE_COLORS[c] : c \in 1..9}

\* a finished 24-petal rose whose petals 21 and 22 share the colour 7
C20_Witness ==
    /\ roseKind = "SvgRose"
    /\ Len(petals) = 24
    /\ petals[22].ci = 7
    /\ petals[23].ci = 8


(***************************************************************************)
(* Properties of the hero timeline (specification HeroSpec)                *)
(***************************************************************************)
\* the entries that are playing or waiting to play
Playing == DOMAIN phase

\* entry e is at its initial state before a ms, interpolating from a to b ms,
\* at its final state from b ms on
InWindow(e, a, b) ==
    /\ now < a => phase[e] = "initial"
    /\ (a <= now /\ now < b) => phase[e] = "running"
    /\ now >= b => phase[e] = "final"

\* entry e has left its initial state
Started(e) == phase[e] # "initial"

\* C11 as stated: no part of a side rose (wrapper, centre, petal) leaves its
\* initial state before 2.2 s, and every part is at its final state from 3.1 s.
C11_Original ==
    \A e \in Playing :
        e.unit = "rose" =>
            /\ now < 2200 => phase[e] = "initial"
            /\ now >= 3100 => phase[e] = "final"

\* C11 amended: no part of a side rose leaves its initial state before 2.2 s;
\* the wrappers are at their final state from 3.1 s and the centres from
\* 2.85 s, while the petals go on unfolding: every part is at its final state
\* from 4.07 s.
C11_SideRoseBloom ==
    \A e \in Playing :
        e.unit = "rose" =>
            /\ now < 2200 => phase[e] = "initial"
            /\ (e.part = "wrapper" /\ now >= 3100) => phase[e] = "final"
            /\ (e.part = "centre" /\ now >= 2850) => phase[e] = "final"
            /\ now >= 4070 => phase[e] = "final"

\* 3.1 s after mount: every wrapper has finished, a petal has not yet started
C11_Witness ==
    /\ page = "clusters"
    /\ now = 3100
    /\ \A e \in Playing : (e.unit = "rose" /\ e.part = "wrapper") => phase[e] = "final"
    /\ \E e \in Playing : e.unit = "rose" /\ e.part = "petal" /\ phase[e] = "initial"
    /\ \E e \in Playing : e.unit = "rose" /\ e.part = "wrapper" /\ e.delay = 2600

\* whenever an entry of kind b has started, every entry of kind a has started
StartsNoEarlier(A(_), B(_)) ==
    (\E y \in Playing : B(y) /\ Started(y)) => \A x \in Playing : A(x) => Started(x)

IsStroke(e) == e.unit = "title" /\ e.part = "stroke"

IsFill(e) == e.unit = "title" /\ e.part = "fill"

\* the first parts of the side roses to start: those of the rose with delay 2.2 s
IsFirstRose(e) == e.unit = "rose" /\ e.delay = 2200

IsFirstSeparator(e) == e.unit = "separator" /\ e.k = 1

IsSeparator(e) == e.unit = "separator"

IsLocation(e) == e.unit = "location"

IsDate(e) == e.unit = "date"

\* the order title stroke, title fill, side roses, separators, location, date
HeroOrder ==
    /\ StartsNoEarlier(IsStroke, IsFill)
    /\ StartsNoEarlier(IsFill, IsFirstRose)
    /\ StartsNoEarlier(IsFirstRose, IsFirstSeparator)
    /\ StartsNoEarlier(IsFirstSeparator, IsLocation)
    /\ StartsNoEarlier(IsLocation, IsDate)

\* C12 as stated: the title stroke plays 0.3-2.3 s, the fill 1.8-2.6 s, the
\* separators 2.3-2.8 s, the location text 2.5-3.3 s, the date text 3.0-4.0 s,
\* and the elements start in the order stroke, fill, roses, separators,
\* location, date.
C12_Original ==
    /\ \A e \in Playing :
          /\ IsStroke(e) => InWindow(e, 300, 2300)
          /\ IsFill(e) => InWindow(e, 1800, 2600)
          /\ IsSeparator(e) => InWindow(e, 2300, 2800)
          /\ IsLocation(e) => InWindow(e, 2500, 3300)
          /\ IsDate(e) => InWindow(e, 3000, 4000)
    /\ HeroOrder

\* C12 amended: the title stroke plays 0.3-2.3 s, the fill 1.8-2.6 s, the
\* first separator 2.3-3.1 s, the location text 2.5-3.3 s, the second
\* separator 2.8-3.6 s, the date text 3.0-4.0 s; stroke, fill, side roses,
\* first separator, location and date start in this order.
C12_HeroSequence ==
    /\ \A e \in Playing :
          /\ IsStroke(e) => InWindow(e, 300, 2300)
          /\ IsFill(e) => InWindow(e, 1800, 2600)
          /\ IsFirstSeparator(e) => InWindow(e, 2300, 3100)
          /\ (IsSeparator(e) /\ e.k = 2) => InWindow(e, 2800, 3600)
          /\ IsLocation(e) => InWindow(e, 2500, 3300)
          /\ IsDate(e) => InWindow(e, 3000, 4000)
    /\ HeroOrder

\* 2.8 s after mount with every element mounted: the first separator is still
\* fading in and the second one starts
C12_Witness ==
    /\ page = "clusters"
    /\ mounted = PageUnits("clusters")
    /\ now = 2800
    /\ \A e \in Playing : IsSeparator(e) => phase[e] = "running"
    /\ \A e \in Playing : IsDate(e) => phase[e] = "initial"

C18_StemBeforeRose ==
    \A s \in Playing :
      s.unit = "stem" =>
        \A p \in Playing :
          (p.unit = "rose" /\ p.side = s.side /\ p.k = s.k) =>
            /\ s.duration = 900
            /\ Started(p) => Started(s)
            /\ (p.part = "petal" /\ p.i = 0) =>
                  /\ s.delay = p.delay - 300
                  /\ Started(p) <=> now >= s.delay + 300
                  /\ now = p.delay => (phase[s] = "running" /\ phase[p] = "running")
                  /\ phase[s] = "final" <=> now >= p.delay + 600

\* 2.2 s after mount: the shortest left stem is running and its rose starts
C18_Witness ==
    /\ page = "stems"
    /\ now = 2200
    /\ \E s \in Playing : s.unit = "stem" /\ s.side = "L" /\ s.k = 4 /\ phase[s] = "running"
    /\ \E p \in Playing :
          /\ p.unit = "rose" /\ p.side = "L" /\ p.k = 4 /\ p.part = "petal" /\ p.i = 0
          /\ phase[p] = "running"

\* C19: RIGHT is LEFT mirrored about x = 500, the right leaves are the left
\* leaves mirrored with the rotation negated, and a left entry and its right
\* counterpart are in the same visual state at every time.
C19_Mirror ==
    /\ Len(RIGHT) = Len(LEFT)
    /\ \A k \in 1..Len(LEFT) :
          /\ RIGHT[k].cx = 1000 - LEFT[k].cx
          /\ RIGHT[k].ex = 1000 - LEFT[k].ex
          /\ RIGHT[k].cy = LEFT[k].cy
          /\ RIGHT[k].ey = LEFT[k].ey
          /\ RIGHT[k].size = LEFT[k].size
          /\ RIGHT[k].delay = LEFT[k].delay
    /\ Len(LEAVES) = 6
    /\ \A k \in 1..3 :
          /\ LEAVES[k + 3].x = 1000 - LEAVES[k].x
          /\ LEAVES[k + 3].r = -LEAVES[k].r
          /\ LEAVES[k + 3].y = LEAVES[k].y
          /\ LEAVES[k + 3].s = LEAVES[k].s
          /\ LEAVES[k + 3].d = LEAVES[k].d
    /\ page = "stems" =>
          \A l \in Playing :
              /\ l.side = "L" =>
                    \A r \in {[l EXCEPT !.side = "R"]} \cap Playing : phase[l] = phase[r]
              /\ (l.unit = "leaf" /\ l.k <= 3) =>
                    \A r \in {[l EXCEPT !.k = l.k + 3]} \cap Playing : phase[l] = phase[r]
              /\ [unit |-> l.unit, side |-> "R", k |-> l.k] \in mounted =>
                    (l.side = "L" => [l EXCEPT !.side = "R"] \in Playing)

\* 2.5 s after mount with everything mounted: the second stems of both sides
\* and the first leaves of both sides are running
C19_Witness ==
    /\ page = "stems"
    /\ mounted = PageUnits("stems")
    /\ now = 2500
    /\ \A e \in Playing : (e.unit = "stem" /\ e.k = 2) => phase[e] = "running"
    /\ \A e \in Playing : (e.unit = "leaf" /\ e.k \in {1, 4} /\ e.part = "blade") => phase[e] = "running"


(***************************************************************************)
(* Properties of the scroll-triggered entries (specification ScrollSpec)   *)
(***************************************************************************)
\* C14: a scroll-triggered entry is started at most once; it is started when
\* its section first comes into view, and from then on it never is back at
\* `initial` before its start, however the page is scrolled.
C14_PlaysOnce ==
    \A e \in ScrollEntries :
        /\ plays[e] \in {0, 1}
        /\ plays[e] = 1 <=> age[e] >= 0
        /\ e.k = section => plays[e] = 1
        /\ plays[e] = 0 => ScrollPhase(e) = "initial"

\* the user went down to the locations and came back up to the invitation,
\* whose entry stays at its final state and has been started once
C14_Witness ==
    /\ section = 2
    /\ lastOp = "scroll"
    /\ \A e \in ScrollEntries : e.k = 3 => plays[e] = 1
    /\ \A e \in ScrollEntries : e.k = 2 => (plays[e] = 1 /\ ScrollPhase(e) = "final")

(***************************************************************************)
(* Ownership of the form state (specification Spec)                        *)
(***************************************************************************)
\* C16: the guest counter differs from its value before the last event only
\* if that event was an increment or decrement click, and the attendance
\* selection only if it was a radio click; a radio click, typing, submitting
\* and scrolling leave the counter alone, and an increment, a decrement and a
\* submit leave the selection alone.
C16_OwnedState ==
    /\ guests # pre.guests => lastOp \in {"increment", "decrement"}
    /\ checked # pre.checked => lastOp = "radio"
    /\ lastOp \in {"radio", "name", "notes", "submit", "scroll", "mount"} => guests = pre.guests
    /\ lastOp \in {"increment", "decrement", "submit", "name", "notes", "scroll", "mount"}
          => checked = pre.checked

\* the user set 5 guests, confirmed attendance, and scrolled up to the programme
C16_Witness ==
    /\ lastOp = "scroll"
    /\ section = 4
    /\ guests = 5
    /\ checked["yes"]


=============================================================================
